---- MODULE Spec2Model ----
(***************************************************************************)
(* qr-tester: the multi-engine QR scanner (src/src/scanner.rs), its image  *)
(* preprocessor (src/src/preprocessor.rs), its statistics accumulator      *)
(* (src/src/timer.rs) and its failure analyzer (src/src/analyzer.rs), as a *)
(* state machine.                                                           *)
(*                                                                         *)
(* The program is single threaded.  pc is the position of the one thread:  *)
(*   "idle"    a QrScanner exists, no call is running                      *)
(*   "walk"    scan_directory is between two entries of the WalkDir loop   *)
(*   "load"    scan_file is about to read and decode the file              *)
(*   "prep"    detect_qr_codes is about to resize and generate variants    *)
(*   "engine"  detect_qr_codes is inside the variant loop of one engine    *)
(*   "return"  detect_qr_codes has returned into scan_file                 *)
(*   "a_load"  analyze_file is about to read and decode the file           *)
(*   "a_rqrr", "a_quircs", "a_rxing"  analyze_file is about to run that    *)
(*             engine's analysis of the first variant                      *)
(*   "a_report" analyze_file is about to generate the recommendations      *)
(* The file system, the image decoder, the clock and the five decoding     *)
(* libraries are the environment: what they answer is drawn from bounded   *)
(* sets at the step that asks.  An Instant is only ever compared with a    *)
(* later Instant of the same scan_file call, so the clock is counted from   *)
(* the entry of scan_file.                                                  *)
(***************************************************************************)
EXTENDS Integers, Sequences, FiniteSets, TLC

\* ------------------------------------------------------------------ bounds
\* Files and directory entries handed to one QrScanner over its life.
MaxFiles == 2
\* Candidates (grids, codes, symbols) a decoding library reports in one call.
MaxItems == 2
\* Clock ticks that pass during one unit of work.
MaxTick == 1
\* Clock ticks that pass during one scan_file call.
MaxClock == 3

\* ----------------------------------------------------------------- helpers
None == <<>>
Some(x) == <<x>>

Range(s) == {s[i] : i \in 1..Len(s)}

Min(a, b) == IF a <= b THEN a ELSE b
Max(a, b) == IF a >= b THEN a ELSE b

\* All sequences over S of length at most n.
SeqsUpTo(S, n) == UNION {[1..k -> S] : k \in 0..n}

\* HashSet::into_iter().collect::<Vec<_>>(): every element once, in an order
\* the hasher picks.
IntoVec(S) ==
    {f \in [1..Cardinality(S) -> S] : \A i, j \in 1..Cardinality(S) : f[i] = f[j] => i = j}

RECURSIVE Concat(_)
Concat(ss) == IF ss = <<>> THEN <<>> ELSE Head(ss) \o Concat(Tail(ss))

\* ------------------------------------------------------------------ timer.rs
QrDetectionTimingNew ==
    [to_grayscale |-> 0, prepare_image |-> 0, detect_grids |-> 0, decode_qr |-> 0, total |-> 0]

ScanTimingNew == [qr_detection |-> QrDetectionTimingNew, total |-> 0]

\* Durations are counted in clock ticks of one millisecond, so the f64
\* millisecond value of a Duration is the tick count.
to_ms(duration) == duration

\* Timer::elapsed of a timer started at instant start, read at instant t.
elapsed(start, t) == t - start

ScanStatsNew ==
    [total_files |-> 0, successful_scans |-> 0, failed_scans |-> 0, files_with_qr |-> 0,
     total_qr_codes |-> 0, total_duration |-> 0, avg_duration_per_file |-> 0]

\* As finalize, had the average been taken over the files scanned with
\* success.
finalize_over_successful(st) ==
    IF st.successful_scans > 0
    THEN [st EXCEPT !.avg_duration_per_file = st.total_duration \div st.successful_scans]
    ELSE st

finalize(st) ==
    IF st.total_files > 0
    THEN [st EXCEPT !.avg_duration_per_file = st.total_duration \div st.total_files]
    ELSE st

\* ----------------------------------------------------------- preprocessor.rs
\* A GrayImage is its dimensions, the least and greatest pixel value, and the
\* operations that produced the pixels.  A DynamicImage carries in addition
\* what is drawn on it: the payloads of the QR codes in the picture and the
\* engines whose library can locate anything in it.
ResizeCap == 2000
AdaptiveMinSide == 100
AdaptiveMaxPixels == 10000000

to_luma8(img) == [width |-> img.width, height |-> img.height, min |-> img.min, max |-> img.max, ops |-> <<>>]

\* imageproc::contrast::stretch_contrast keeps the dimensions and maps
\* [min, max] onto [0, 255].
stretch_contrast(gray, lo, hi) ==
    [gray EXCEPT !.min = 0, !.max = 255, !.ops = Append(gray.ops, "stretch")]

enhance_contrast(gray) ==
    IF gray.min < gray.max THEN stretch_contrast(gray, gray.min, gray.max) ELSE gray

\* imageproc::contrast::threshold keeps the dimensions; every pixel becomes 0 or 255.
otsu_binarization(gray) ==
    [gray EXCEPT !.min = 0, !.max = 255, !.ops = Append(gray.ops, "otsu")]

\* imageproc::contrast::adaptive_threshold keeps the dimensions.
adaptive_threshold_image(gray, block_radius) ==
    [gray EXCEPT !.min = 0, !.max = 255, !.ops = Append(gray.ops, "adaptive")]

\* As invert, with the arguments of from_fn exchanged.
invert_swapped(gray) ==
    [width |-> gray.height, height |-> gray.width, min |-> 255 - gray.max,
     max |-> 255 - gray.min, ops |-> Append(gray.ops, "invert")]

\* ImageBuffer::from_fn(gray.width(), gray.height(), ...) of 255 - pixel.
invert(gray) ==
    [width |-> gray.width, height |-> gray.height, min |-> 255 - gray.max,
     max |-> 255 - gray.min, ops |-> Append(gray.ops, "invert")]

\* image::DynamicImage::resize(nwidth, nheight, filter): the largest size of
\* the same aspect ratio that fits in nwidth x nheight, each side rounded and
\* at least 1.
RoundDiv(a, b) == (2 * a + b) \div (2 * b)

dyn_resize(img, nwidth, nheight) ==
    IF nwidth * img.height <= nheight * img.width
    THEN [img EXCEPT !.width = Max(RoundDiv(img.width * nwidth, img.width), 1),
                     !.height = Max(RoundDiv(img.height * nwidth, img.width), 1)]
    ELSE [img EXCEPT !.width = Max(RoundDiv(img.width * nheight, img.height), 1),
                     !.height = Max(RoundDiv(img.height * nheight, img.height), 1)]

\* resize(img, scale) with scale = num / den; `as u32` truncates.  The f32
\* product is taken exactly: the images drawn below have sides whose scaled
\* value the f32 arithmetic represents exactly.
resize(img, num, den) ==
    LET new_width == (img.width * num) \div den
        new_height == (img.height * num) \div den
    IN IF new_width > 0 /\ new_height > 0 THEN dyn_resize(img, new_width, new_height) ELSE img

clamp(x, lo, hi) == IF x < lo THEN lo ELSE IF x > hi THEN hi ELSE x

\* Unsigned integers are kept as their bytes, least significant first, where
\* the width of the type decides the value.
U32Bytes == 4
U64Bytes == 8

Bytes(n, k) == [i \in 1..k |-> IF i > U32Bytes THEN 0 ELSE (n \div (256 ^ (i - 1))) % 256]

Digit(x, j) == IF j \in 1..Len(x) THEN x[j] ELSE 0

\* Bytes i..k of the product of two u32, given the carry into byte i.
RECURSIVE MulBytes(_, _, _, _, _)
MulBytes(a, b, i, carry, k) ==
    IF i > k THEN <<>>
    ELSE LET s == carry + Digit(a, 1) * Digit(b, i) + Digit(a, 2) * Digit(b, i - 1)
                        + Digit(a, 3) * Digit(b, i - 2) + Digit(a, 4) * Digit(b, i - 3)
         IN <<s % 256>> \o MulBytes(a, b, i + 1, s \div 256, k)

\* The product of two u32 in an unsigned type of k bytes (wrapping).
wrapping_mul(x, y, k) == MulBytes(Bytes(x, U32Bytes), Bytes(y, U32Bytes), 1, 0, k)

\* x < n, for x given by its bytes.
BytesLess(x, n) ==
    \E i \in 1..Len(x) :
        /\ x[i] < Bytes(n, Len(x))[i]
        /\ \A j \in (i + 1)..Len(x) : x[j] = Bytes(n, Len(x))[j]

\* As pixel_count, had the product been taken in u32.
pixel_count_u32(width, height) == wrapping_mul(width, height, U32Bytes)

\* Line 82: (width as u64) * (height as u64).
pixel_count(width, height) == wrapping_mul(width, height, U64Bytes)

generate_variants(img) ==
    LET gray == to_luma8(img)
        enhanced == enhance_contrast(gray)
        width == gray.width
        height == gray.height
        first == << [name |-> "original", image |-> gray],
                    [name |-> "contrast_enhanced", image |-> enhanced],
                    [name |-> "otsu", image |-> otsu_binarization(enhanced)],
                    [name |-> "inverted", image |-> invert(enhanced)] >>
    IN IF /\ width > AdaptiveMinSide
          /\ height > AdaptiveMinSide
          /\ BytesLess(pixel_count(width, height), AdaptiveMaxPixels)
       THEN Append(first,
                   [name |-> "adaptive",
                    image |-> adaptive_threshold_image(enhanced, clamp(Min(width, height) \div 50, 5, 50))])
       ELSE first

\* The working image of detect_qr_codes (scanner.rs, step 0).
working_image(img) ==
    LET max_dimension == Max(img.width, img.height)
    IN IF max_dimension > ResizeCap THEN resize(img, ResizeCap, max_dimension) ELSE img

\* ------------------------------------------------- scanner.rs: the adapters
engine_order == <<"rqrr", "rxing", "quircs", "bardecoder", "zbar-pack">>
NumEngines == Len(engine_order)

Ok(v) == [ok |-> TRUE, val |-> v, err |-> ""]
Err(e) == [ok |-> FALSE, val |-> <<>>, err |-> e]

\* What a decoding library answers to one call: either the call as a whole
\* fails (fail is the reason), or it reports a list of candidates.  A
\* candidate is decoded text ("ok"), a decode error ("err"), a quircs
\* extraction error ("extract_err"), a quircs payload that is not UTF-8
\* ("non_utf8") or a zbar symbol of another type than QRCODE ("other_symbol").
Item(kind, text) == [kind |-> kind, text |-> text]
Answer(items) == [fail |-> "", items |-> items]
Failure(reason) == [fail |-> reason, items |-> <<>>]

DecodedTexts(items) ==
    LET ok == SelectSeq(items, LAMBDA it : it.kind = "ok")
    IN [i \in 1..Len(ok) |-> ok[i].text]

\* rqrr: every grid whose decode() is Ok contributes its content.
detect_with_rqrr(answer) == Ok(DecodedTexts(answer.items))

\* rxing: one decode; Ok pushes the text, every exception (NotFoundException
\* silently, the others logged) leaves the list empty.
detect_with_rxing(answer) ==
    IF answer.fail = "" THEN Ok(DecodedTexts(answer.items)) ELSE Ok(<<>>)

\* quircs: extraction errors, decode errors and payloads that are not UTF-8
\* are dropped.
detect_with_quircs(answer) == Ok(DecodedTexts(answer.items))

\* bardecoder: GrayImage::from_raw returning None is the only Err (the
\* buffer of a GrayImage always has width * height bytes, so the library
\* never answers so: see LibraryFailures).
detect_with_bardecoder(answer) ==
    IF answer.fail # "" THEN Err("Failed to create image_v24::GrayImage")
    ELSE Ok(DecodedTexts(answer.items))

\* zbar-pack: image creation, scanner creation and scan can each fail; only
\* symbols of type QRCODE are kept.
detect_with_zbar_pack(answer) ==
    IF answer.fail # "" THEN Err(answer.fail) ELSE Ok(DecodedTexts(answer.items))

detect_with(engine, answer) ==
    CASE engine = "rqrr" -> detect_with_rqrr(answer)
      [] engine = "rxing" -> detect_with_rxing(answer)
      [] engine = "quircs" -> detect_with_quircs(answer)
      [] engine = "bardecoder" -> detect_with_bardecoder(answer)
      [] engine = "zbar-pack" -> detect_with_zbar_pack(answer)

\* The answers a library can give on an image: the texts it can decode are
\* payloads drawn on the image, and only for an engine that can read it.
LibraryItems(engine, img) ==
    LET texts == IF engine \in img.readers THEN img.payloads ELSE {}
        decoded == {Item("ok", t) : t \in texts}
    IN CASE engine = "rqrr" -> decoded \cup {Item("err", "")}
         [] engine = "rxing" -> decoded
         [] engine = "quircs" -> decoded \cup {Item("err", ""), Item("extract_err", ""), Item("non_utf8", "")}
         [] engine = "bardecoder" -> decoded \cup {Item("err", "")}
         [] engine = "zbar-pack" -> decoded \cup {Item("other_symbol", "4006381333931")}

LibraryFailures(engine) ==
    CASE engine = "rqrr" -> {}
      [] engine = "rxing" -> {"NotFoundException", "ChecksumException"}
      [] engine = "quircs" -> {}
      [] engine = "bardecoder" -> {}
      [] engine = "zbar-pack" -> {"zbar-pack image creation failed", "zbar-pack scanner creation failed",
                                  "zbar-pack scan failed"}

LibraryAnswers(engine, img) ==
    {Failure(r) : r \in LibraryFailures(engine)}
    \cup (IF engine = "rxing"
          THEN {Answer(<<it>>) : it \in LibraryItems(engine, img)}
          ELSE {Answer(items) : items \in SeqsUpTo(LibraryItems(engine, img), MaxItems)})

\* --------------------------------------------- scanner.rs: detect_qr_codes
\* As merge_codes, had the arm assigned the set instead of extending it.
merge_codes_overwriting(codes, res) ==
    IF res.ok /\ res.val # <<>> THEN Range(res.val) ELSE codes

\* The match on an adapter's result (identical for the five engines): only a
\* non-empty Ok extends the engine's HashSet; Err and the empty Ok fall into
\* an arm that does nothing.
merge_codes(codes, res) ==
    IF res.ok /\ res.val # <<>> THEN codes \cup Range(res.val) ELSE codes

\* As propagates, had the adapter been called with `?`.
propagates_with_question_mark(res) == ~res.ok

\* Whether the match lets an adapter's Err leave detect_qr_codes: no arm
\* returns, so never.
propagates(res) == FALSE

\* As extend, had the first engine with a payload settled the result.
extend_if_empty(set, items) == IF set = {} THEN items ELSE set

\* HashSet::extend (lines 150, 179, 208, 237, 266).
extend(set, items) == set \cup items

\* As next_variant, had the loop stopped at the first variant that decodes.
next_variant_until_decoded(v, n, res) == IF res.ok /\ res.val # <<>> THEN n + 1 ELSE v + 1

\* The variant loop `for (variant_name, gray_img) in &variants` has no
\* break: after variant v of n comes variant v + 1, whatever the result.
next_variant(v, n, res) == v + 1

\* As engine_timer_start, had one timer served the five engines.
engine_timer_shared(e, t, old) == IF e = 1 THEN t ELSE old

\* rqrr_timer, rxing_timer, quircs_timer, bardecoder_timer, zbar_pack_timer
\* (lines 133, 161, 187, 216, 245): engine e's timer starts at instant t,
\* just before its loop.
engine_timer_start(e, t, old) == t

\* As decode_timer_start, had the timer been started anew before every
\* engine after rqrr.
decode_timer_restarted(e, t, old) == IF e >= 2 THEN t ELSE old

\* decode_timer (line 160) starts once, before rxing (engine 2).
decode_timer_start(e, t, old) == IF e = 2 THEN t ELSE old

EngineResult(name, qr_codes, duration) ==
    [engine_name |-> name, qr_codes |-> qr_codes, duration_ms |-> to_ms(duration)]

\* As detect_results, had the engines' Vecs been appended to a Vec.
detect_results_concatenated(all_results, engine_results) ==
    {Concat([i \in 1..Len(engine_results) |-> engine_results[i].qr_codes])}

\* The Vecs `all_results.into_iter().collect()` can yield (line 276).
detect_results(all_results, engine_results) == IntoVec(all_results)

\* ---------------------------------------------------- scanner.rs: scan_file
\* path.display()
display(p) == ToString(p)

\* anyhow's Display of an error shows its outermost context.
read_error(p) == <<"Failed to read file: ", display(p)>>
decode_error(p) == <<"Failed to decode image: ", display(p)>>

\* As record_success, without the is_empty test of line 78.
record_success_counting_every_file(st, total, n) ==
    [st EXCEPT !.total_files = @ + 1, !.successful_scans = @ + 1, !.total_duration = @ + total,
               !.files_with_qr = @ + 1, !.total_qr_codes = @ + n]

\* Lines 74-81: the statistics of a file whose scan succeeded with n payloads.
record_success(st, total, n) ==
    LET counted == [st EXCEPT !.total_files = @ + 1, !.successful_scans = @ + 1,
                              !.total_duration = @ + total]
    IN IF n # 0
       THEN [counted EXCEPT !.files_with_qr = @ + 1, !.total_qr_codes = @ + n]
       ELSE counted

\* As success_result, had a scan that finds nothing been reported as failed.
success_result_requiring_codes(p, qr_codes, engine_results, t) ==
    [file_path |-> p, qr_codes |-> qr_codes, engine_results |-> engine_results, timing |-> t,
     success |-> qr_codes # <<>>,
     error |-> IF qr_codes # <<>> THEN None ELSE Some(<<"No QR code found: ", display(p)>>)]

\* Lines 83-90.
success_result(p, qr_codes, engine_results, t) ==
    [file_path |-> p, qr_codes |-> qr_codes, engine_results |-> engine_results, timing |-> t,
     success |-> TRUE, error |-> None]

\* ----------------------------------------------- scanner.rs: scan_directory
lower_char(c) ==
    CASE c = "A" -> "a" [] c = "B" -> "b" [] c = "C" -> "c" [] c = "D" -> "d" [] c = "E" -> "e"
      [] c = "F" -> "f" [] c = "G" -> "g" [] c = "H" -> "h" [] c = "I" -> "i" [] c = "J" -> "j"
      [] c = "K" -> "k" [] c = "L" -> "l" [] c = "M" -> "m" [] c = "N" -> "n" [] c = "O" -> "o"
      [] c = "P" -> "p" [] c = "Q" -> "q" [] c = "R" -> "r" [] c = "S" -> "s" [] c = "T" -> "t"
      [] c = "U" -> "u" [] c = "V" -> "v" [] c = "W" -> "w" [] c = "X" -> "x" [] c = "Y" -> "y"
      [] c = "Z" -> "z" [] OTHER -> c

\* A string is the sequence of its characters.
to_lowercase(str) == [i \in 1..Len(str) |-> lower_char(str[i])]

image_extensions ==
    << <<"p", "n", "g">>, <<"j", "p", "g">>, <<"j", "p", "e", "g">>, <<"b", "m", "p">>,
       <<"g", "i", "f">>, <<"w", "e", "b", "p">>, <<"t", "i", "f", "f">>, <<"t", "i", "f">> >>

\* As is_image_entry, without to_lowercase.
is_image_entry_case_sensitive(entry) ==
    /\ entry.is_file
    /\ entry.ext # None
    /\ entry.ext[1] \in Range(image_extensions)

\* Lines 474-485: whether the loop body reaches scan_file for this entry.
is_image_entry(entry) ==
    /\ entry.is_file
    /\ entry.ext # None
    /\ to_lowercase(entry.ext[1]) \in Range(image_extensions)

\* As record_failure, without line 495.
record_failure_total_only(st) == [st EXCEPT !.total_files = @ + 1]

\* Lines 494-495.
record_failure(st) == [st EXCEPT !.total_files = @ + 1, !.failed_scans = @ + 1]

\* As failure_counted, had scan_file counted its own failures.
failure_counted_by_any(c) == TRUE

\* Whether a failed scan_file call is counted: scan_file returns through ?
\* (lines 64, 66, 69) before it reaches its statistics (74-81); the Err arm
\* of scan_directory (492-495) is the one place that counts a failure.
failure_counted(c) == c = "dir"

\* As failure_result, with error: None.
failure_result_without_message(p, e) ==
    [file_path |-> p, qr_codes |-> <<>>, engine_results |-> <<>>, timing |-> ScanTimingNew,
     success |-> FALSE, error |-> None]

\* Lines 497-504.
failure_result(p, e) ==
    [file_path |-> p, qr_codes |-> <<>>, engine_results |-> <<>>, timing |-> ScanTimingNew,
     success |-> FALSE, error |-> Some(e)]

\* ------------------------------------------------------------- analyzer.rs
\* A tag or a message is the sequence of its words ("DataEcc" is Data, Ecc),
\* so that str::contains is a search for a run of words.
contains(s, pat) == \E i \in 1..(Len(s) - Len(pat) + 1) : SubSeq(s, i, i + Len(pat) - 1) = pat

\* As GridAnalysis, had the decoded content not been kept.
GridAnalysis_without_content(grid_index, decode_success, error_type, error_detail, content) ==
    [grid_index |-> grid_index, version |-> None, module_size |-> None,
     decode_success |-> decode_success, error_type |-> error_type,
     error_detail |-> error_detail, content |-> None]

GridAnalysis(grid_index, decode_success, error_type, error_detail, content) ==
    [grid_index |-> grid_index, version |-> None, module_size |-> None,
     decode_success |-> decode_success, error_type |-> error_type,
     error_detail |-> error_detail, content |-> content]

EngineAnalysis(engine_name, grids_detected, decode_results, success, summary) ==
    [engine_name |-> engine_name, grids_detected |-> grids_detected,
     decode_results |-> decode_results, success |-> success, summary |-> summary]

AnalysisReport(file_path, image_size, variants_tested, engine_analyses, overall_success, recommendations) ==
    [file_path |-> file_path, image_size |-> image_size, variants_tested |-> variants_tested,
     engine_analyses |-> engine_analyses, overall_success |-> overall_success,
     recommendations |-> recommendations]

\* The values of rqrr::DeQRError, quircs::DecodeError, quircs::ExtractError
\* and the variants of rxing::Exceptions.
DeQRError ==
    {"DataUnderflow", "DataOverflow", "UnknownDataType", "DataEcc", "FormatEcc",
     "InvalidVersion", "InvalidGridSize", "EncodingError", "IoError"}

DecodeError ==
    {"InvalidGridSize", "InvalidVersion", "DataEcc", "FormatEcc", "UnkownDataType",
     "DataOverflow", "DataUnderflow"}

ExtractError == {"OutOfBounds"}

Exceptions ==
    {"IllegalArgumentException", "UnsupportedOperationException", "IllegalStateException",
     "ArithmeticException", "NotFoundException", "FormatException", "ChecksumException",
     "ReaderException", "WriterException", "ReedSolomonException",
     "IndexOutOfBoundsException", "RuntimeException", "ParseException"}

\* An rxing exception carries a message.
Exception(kind, msg) == [kind |-> kind, msg |-> msg]

\* The words of the names above.
Words(name) ==
    CASE name = "DataUnderflow" -> <<"Data", "Underflow">>
      [] name = "DataOverflow" -> <<"Data", "Overflow">>
      [] name = "UnknownDataType" -> <<"Unknown", "Data", "Type">>
      [] name = "DataEcc" -> <<"Data", "Ecc">>
      [] name = "FormatEcc" -> <<"Format", "Ecc">>
      [] name = "InvalidVersion" -> <<"Invalid", "Version">>
      [] name = "InvalidGridSize" -> <<"Invalid", "Grid", "Size">>
      [] name = "EncodingError" -> <<"Encoding", "Error">>
      [] name = "IoError" -> <<"Io", "Error">>
      [] name = "OutOfBounds" -> <<"Out", "Of", "Bounds">>
      [] name = "IllegalArgumentException" -> <<"Illegal", "Argument", "Exception">>
      [] name = "UnsupportedOperationException" -> <<"Unsupported", "Operation", "Exception">>
      [] name = "IllegalStateException" -> <<"Illegal", "State", "Exception">>
      [] name = "ArithmeticException" -> <<"Arithmetic", "Exception">>
      [] name = "NotFoundException" -> <<"Not", "Found", "Exception">>
      [] name = "FormatException" -> <<"Format", "Exception">>
      [] name = "ChecksumException" -> <<"Checksum", "Exception">>
      [] name = "ReaderException" -> <<"Reader", "Exception">>
      [] name = "WriterException" -> <<"Writer", "Exception">>
      [] name = "ReedSolomonException" -> <<"Reed", "Solomon", "Exception">>
      [] name = "IndexOutOfBoundsException" -> <<"Index", "Out", "Of", "Bounds", "Exception">>
      [] name = "RuntimeException" -> <<"Runtime", "Exception">>
      [] name = "ParseException" -> <<"Parse", "Exception">>

\* Lines 186-243: the tag is the name of the variant, the detail a fixed text.
analyze_rqrr_error(error) == <<Words(error), <<"rqrr", error, "explained">>>>

\* Lines 321-357: as above; UnkownDataType is tagged UnknownDataType.
analyze_quircs_decode_error(error) ==
    IF error = "UnkownDataType"
    THEN <<Words("UnknownDataType"), <<"quircs", error, "explained">>>>
    ELSE <<Words(error), <<"quircs", error, "explained">>>>

\* Lines 360-369.
analyze_quircs_extract_error(error) == <<Words(error), <<"quircs", error, "explained">>>>

\* msg, or the text that stands for an empty msg.
message_or_none(msg) == IF msg = <<>> THEN <<"no detail">> ELSE msg

\* Lines 426-478: four variants have a fixed tag; every other variant is
\* tagged with its Debug form, which shows the message.
analyze_rxing_error(error) ==
    CASE error.kind = "NotFoundException" ->
            <<Words(error.kind), <<"rxing", error.kind, "explained">>>>
      [] error.kind \in {"FormatException", "ChecksumException", "ReedSolomonException"} ->
            <<Words(error.kind), <<"rxing", error.kind, "explained: ">> \o message_or_none(error.msg)>>
      [] OTHER ->
            <<Words(error.kind) \o <<"(">> \o error.msg \o <<")">>, <<"rxing", "other error">>>>

CountSuccess(decode_results) ==
    Cardinality({i \in 1..Len(decode_results) : decode_results[i].decode_success})

\* Lines 164-174 and 299-309.
summary_of(grids_detected, any_success, decode_results, unit) ==
    IF grids_detected = 0 THEN <<"No QR code patterns detected">>
    ELSE IF any_success
    THEN <<"Successfully decoded ", ToString(CountSuccess(decode_results)), "/",
           ToString(grids_detected), unit>>
    ELSE <<"Detected ", ToString(grids_detected), unit, " but all failed to decode">>

\* Lines 123-183: grids is what detect_grids returned, each with the outcome
\* of its decode().
analyze_with_rqrr(grids, variant_name) ==
    LET decode_results ==
            [i \in 1..Len(grids) |->
                IF grids[i].kind = "ok"
                THEN GridAnalysis(i - 1, TRUE, None, <<"Version, ECC level, modules">>, Some(grids[i].text))
                ELSE LET a == analyze_rqrr_error(grids[i].text)
                     IN GridAnalysis(i - 1, FALSE, Some(a[1]), a[2], None)]
        grids_detected == Len(grids)
        any_success == \E i \in 1..Len(grids) : grids[i].kind = "ok"
    IN EngineAnalysis(<<"rqrr (", variant_name, ")">>, grids_detected, decode_results, any_success,
                      summary_of(grids_detected, any_success, decode_results, " grids"))

\* Lines 246-318: codes is what identify yields: an extraction error, or a
\* code with the outcome of its decode(); a payload that is not UTF-8 is
\* shown as <binary data>.
analyze_with_quircs(codes, variant_name) ==
    LET decode_results ==
            [i \in 1..Len(codes) |->
                CASE codes[i].kind = "ok" ->
                        GridAnalysis(i - 1, TRUE, None, <<"Version, ECC level, Data type">>, Some(codes[i].text))
                  [] codes[i].kind = "non_utf8" ->
                        GridAnalysis(i - 1, TRUE, None, <<"Version, ECC level, Data type">>, Some("<binary data>"))
                  [] codes[i].kind = "err" ->
                        LET a == analyze_quircs_decode_error(codes[i].text)
                        IN GridAnalysis(i - 1, FALSE, Some(a[1]), a[2], None)
                  [] codes[i].kind = "extract_err" ->
                        LET a == analyze_quircs_extract_error(codes[i].text)
                        IN GridAnalysis(i - 1, FALSE, Some(a[1]), a[2], None)]
        grids_detected == Len(codes)
        any_success == \E i \in 1..Len(codes) : codes[i].kind \in {"ok", "non_utf8"}
    IN EngineAnalysis(<<"quircs (", variant_name, ")">>, grids_detected, decode_results, any_success,
                      summary_of(grids_detected, any_success, decode_results, " codes"))

\* Lines 372-423: outcome is the Result of decode_with_hints.
analyze_with_rxing(outcome, variant_name) ==
    IF outcome.ok
    THEN EngineAnalysis(<<"rxing (", variant_name, ")">>, 1,
                        <<GridAnalysis(0, TRUE, None, <<"Format: QR_CODE">>, Some(outcome.val))>>,
                        TRUE, <<"Successfully decoded 1 QR code">>)
    ELSE LET a == analyze_rxing_error(outcome.err)
         IN EngineAnalysis(<<"rxing (", variant_name, ")">>, 0,
                           <<GridAnalysis(0, FALSE, Some(a[1]), a[2], None)>>,
                           FALSE, <<"Detection failed: ">> \o a[1])

\* The four texts generate_recommendations can push (lines 488-492, 517-521,
\* 528-531, 538-541), named by what they advise.
NoPatternFound == "no QR pattern detected: check that the image holds a QR code"
CleanerImage == "data error correction failed (DataEcc): use a cleaner image"
FormatMetadata == "format information error (FormatEcc): the metadata area is damaged"
Recapture == "all engines detected a QR code but decoding failed: capture again"

\* As SumGrids, counting the grids of the first analysis only.
first_grids(analyses) == IF analyses = <<>> THEN 0 ELSE Head(analyses).grids_detected

RECURSIVE SumGrids(_)
SumGrids(analyses) ==
    IF analyses = <<>> THEN 0 ELSE Head(analyses).grids_detected + SumGrids(Tail(analyses))

\* As has_error, had the loop stopped after the first analysis.
has_error_in_first_analysis(analyses, pat) ==
    \E i \in 1..Min(1, Len(analyses)) : \E j \in 1..Len(analyses[i].decode_results) :
        LET result == analyses[i].decode_results[j]
        IN result.error_type # None /\ contains(result.error_type[1], pat)

\* Lines 502-513: whether some recorded error tag contains pat.
has_error(analyses, pat) ==
    \E i \in 1..Len(analyses) : \E j \in 1..Len(analyses[i].decode_results) :
        LET result == analyses[i].decode_results[j]
        IN result.error_type # None /\ contains(result.error_type[1], pat)

\* As push_if_unadvised, had line 536 also asked that every analysis
\* detected a grid.
push_if_all_detected(recommendations, analyses) ==
    IF /\ recommendations = <<>>
       /\ ~(\E i \in 1..Len(analyses) : analyses[i].success)
       /\ \A i \in 1..Len(analyses) : analyses[i].grids_detected > 0
    THEN Append(recommendations, Recapture)
    ELSE recommendations

\* As push_if_unadvised, with the test of success inverted.
push_if_successful(recommendations, analyses) ==
    IF recommendations = <<>> /\ (\E i \in 1..Len(analyses) : analyses[i].success)
    THEN Append(recommendations, Recapture)
    ELSE recommendations

\* Lines 536-544.
push_if_unadvised(recommendations, analyses) ==
    IF recommendations = <<>> /\ ~(\E i \in 1..Len(analyses) : analyses[i].success)
    THEN Append(recommendations, Recapture)
    ELSE recommendations

\* Lines 481-547.
generate_recommendations(analyses) ==
    LET total_grids == SumGrids(analyses)
        has_data_ecc == has_error(analyses, Words("DataEcc"))
        has_format_ecc == has_error(analyses, Words("FormatEcc"))
        first == IF has_data_ecc THEN <<CleanerImage>> ELSE <<>>
        second == IF has_format_ecc THEN Append(first, FormatMetadata) ELSE first
    IN IF total_grids = 0 THEN <<NoPatternFound>> ELSE push_if_unadvised(second, analyses)

\* ------------------------------------------------------------ the environment
Image(w, h, lo, hi, payloads, readers) ==
    [width |-> w, height |-> h, min |-> lo, max |-> hi, payloads |-> payloads, readers |-> readers]

NoImage == Image(0, 0, 0, 0, {}, {})

\* The images a directory holds: a blank page on a slow disk, and an
\* oversized photo of two codes that one engine reads.
BlankImages == { Image(64, 48, 255, 255, {}, {}) }

PhotoImages == { Image(4000, 3000, 10, 240, {"HELLO", "WORLD"}, {"zbar-pack"}) }

\* A clean code that every engine reads, and a sheet of two codes that three
\* of the engines read.
DetectImages ==
    { Image(90, 90, 0, 255, {"HELLO"}, Range(engine_order)),
      Image(640, 480, 0, 255, {"HELLO", "WORLD"}, {"rqrr", "rxing", "zbar-pack"}) }

\* What fs::read followed by image::load_from_memory yields.
LoadOutcomes(images) ==
    {[status |-> "read_err", img |-> NoImage], [status |-> "decode_err", img |-> NoImage]}
    \cup {[status |-> "ok", img |-> i] : i \in images}

Entry(is_file, ext) == [is_file |-> is_file, ext |-> ext]

\* What WalkDir yields: regular files named *.JpeG, *.txt and without an
\* extension, and a directory whose name ends in .png.
WalkEntries ==
    { Entry(TRUE, Some(<<"J", "p", "e", "G">>)), Entry(TRUE, Some(<<"t", "x", "t">>)),
      Entry(TRUE, None), Entry(FALSE, Some(<<"p", "n", "g">>)) }

\* The path given to a direct scan_file call (args.input), and the paths of
\* the entries of a directory, numbered in traversal order.
InputPath == 0

\* ------------------------------------------------------------------- state
VARIABLES
    stats,        \* QrScanner.stats
    pc,           \* position of the thread
    caller,       \* who called scan_file: "file" (the caller of the API), "dir" (scan_directory), "none"
    now,          \* the monotonic clock: ticks since scan_file was last entered
    path,         \* scan_file: path
    walked,       \* scan_directory: the entries WalkDir has yielded so far
    results,      \* scan_directory: results
    ret,          \* what the last API call returned to its caller
    total_timer,  \* scan_file: total_timer (its start instant)
    img,          \* scan_file: img
    timing,       \* scan_file: timing
    det,          \* detect_qr_codes: its locals
    ghost,        \* history: what was attempted, independent of stats
    an            \* analyze_file: its locals

vars == <<stats, pc, caller, now, path, walked, results, ret, total_timer, img, timing, det, ghost, an>>

DetNew ==
    [total_timer |-> 0, gray_timer |-> 0, prepare_timer |-> 0, decode_timer |-> 0,
     engine_timer |-> 0, working_img |-> NoImage, variants |-> <<>>, all_results |-> {},
     engine_results |-> <<>>, codes |-> {}, e |-> 0, v |-> 0]

\* What an API call returned: call is the method, tag is "Ok" or "Err".
Return(call, tag, res, error) == [call |-> call, tag |-> tag, results |-> res, error |-> error]

NoRet == Return("none", "None", <<>>, None)

AnNew ==
    [width |-> 0, height |-> 0, working_img |-> NoImage, variants |-> <<>>, variants_tested |-> 0,
     engine_analyses |-> <<>>, overall_success |-> FALSE]

GhostNew ==
    [files |-> 0, attempted |-> 0, failed |-> 0, recorded_duration |-> 0, with_qr |-> 0, sum_codes |-> 0,
     seen |-> [i \in 1..NumEngines |-> {}], invoked |-> <<>>, repeated |-> FALSE,
     erred |-> FALSE, last |-> "none", generated |-> 0, library |-> <<>>, first |-> <<>>,
     order |-> <<>>, prepared |-> 0, started |-> [i \in 1..NumEngines |-> 0],
     ended |-> [i \in 1..NumEngines |-> 0]]

\* The history of one detect_qr_codes call: what each engine's adapter
\* returned with Ok (seen), the (engine, variant) pairs invoked in order,
\* whether a string came back a second time from the same engine, whether
\* an adapter returned Err, how often generate_variants was called, the
\* instant the variants were ready (prepared), and for each engine the
\* instant just before its first and just after its last invocation.
\* Beside the history, ghost holds what the environment was fixed to, where
\* it is: library, the answer of each engine's library on each variant when
\* the libraries are deterministic (<<>> when every call is free to answer
\* anything); first, the payload sets of the first scan under such a
\* library; order, an order of engines and of variants under study.
ForgetDetection(g) ==
    [g EXCEPT !.seen = [i \in 1..NumEngines |-> {}], !.invoked = <<>>, !.repeated = FALSE,
              !.erred = FALSE, !.generated = 0, !.prepared = 0,
              !.started = [i \in 1..NumEngines |-> 0], !.ended = [i \in 1..NumEngines |-> 0]]

\* As library_call, had an adapter consulted the statistics and skipped
\* its library once a file has been counted.
library_call_after_statistics(e, v) ==
    IF ghost.library = <<>> THEN LibraryAnswers(engine_order[e], det.working_img)
    ELSE IF stats.total_files = 0 THEN {ghost.library[e][v]}
    ELSE {Answer(<<>>)}

\* What the library of engine e can answer on variant v of the working image.
library_call(e, v) ==
    IF ghost.library = <<>> THEN LibraryAnswers(engine_order[e], det.working_img)
    ELSE {ghost.library[e][v]}

\* The payload sets of a ScanResult.
ResultSets(r) ==
    [global |-> Range(r.qr_codes),
     engines |-> [k \in 1..Len(r.engine_results) |-> Range(r.engine_results[k].qr_codes)]]

HasRepeat(s) == \E i, j \in 1..Len(s) : i # j /\ s[i] = s[j]

Init ==
    /\ stats = ScanStatsNew
    /\ pc = "idle"
    /\ caller = "none"
    /\ now = 0
    /\ path = InputPath
    /\ walked = <<>>
    /\ results = <<>>
    /\ ret = NoRet
    /\ total_timer = 0
    /\ img = NoImage
    /\ timing = ScanTimingNew
    /\ det = DetNew
    /\ ghost = GhostNew
    /\ an = AnNew

\* The locals of scan_file and detect_qr_codes are dropped when scan_file returns.
DropLocals ==
    /\ img' = NoImage
    /\ timing' = ScanTimingNew
    /\ det' = DetNew
    /\ total_timer' = 0

\* scan_file returns Err(e) through one of its `?` (lines 64, 66, 69).  A
\* caller of the API gets the Err; scan_directory takes its Err arm
\* (lines 492-505).
ScanFileFails(e) ==
    /\ DropLocals
    /\ ghost' = [ForgetDetection(ghost) EXCEPT !.attempted = @ + 1, !.failed = @ + 1, !.last = "failed"]
    /\ stats' = IF failure_counted(caller) THEN record_failure(stats) ELSE stats
    /\ IF caller = "dir"
       THEN /\ results' = Append(results, failure_result(path, e))
            /\ pc' = "walk"
            /\ UNCHANGED <<caller, ret>>
       ELSE /\ ret' = Return("scan_file", "Err", <<>>, Some(e))
            /\ pc' = "idle"
            /\ caller' = "none"
            /\ UNCHANGED results

\* A caller (main, lines 82-88) calls scan_file.
CallScanFile ==
    /\ pc = "idle"
    /\ ghost.files < MaxFiles
    /\ caller' = "file"
    /\ path' = InputPath
    /\ now' = 0
    /\ total_timer' = now'
    /\ timing' = ScanTimingNew
    /\ ret' = NoRet
    /\ walked' = <<>>
    /\ pc' = "load"
    /\ ghost' = [ghost EXCEPT !.files = @ + 1, !.last = "none"]
    /\ UNCHANGED <<stats, results, img, det>>
    /\ UNCHANGED an

\* A caller (main, lines 89-93) calls scan_directory.
CallScanDirectory ==
    /\ pc = "idle"
    /\ caller' = "dir"
    /\ results' = <<>>
    /\ walked' = <<>>
    /\ ret' = NoRet
    /\ pc' = "walk"
    /\ ghost' = [ghost EXCEPT !.last = "none"]
    /\ UNCHANGED <<stats, now, path, total_timer, img, timing, det>>
    /\ UNCHANGED an

\* One turn of the WalkDir loop (lines 466-488): an entry that is no image
\* file is skipped, an image file enters scan_file.  (An Err item of WalkDir
\* is dropped by filter_map and leaves no trace.)
WalkNext ==
    /\ pc = "walk"
    /\ ghost.files < MaxFiles
    /\ \E entry \in WalkEntries :
        /\ walked' = Append(walked, entry)
        /\ IF is_image_entry(entry)
           THEN /\ path' = Len(walked) + 1
                /\ now' = 0
                /\ total_timer' = now'
                /\ timing' = ScanTimingNew
                /\ pc' = "load"
           ELSE UNCHANGED <<path, now, total_timer, timing, pc>>
    /\ ghost' = [ghost EXCEPT !.files = @ + 1]
    /\ UNCHANGED <<stats, caller, results, ret, img, det>>
    /\ UNCHANGED an

\* WalkDir is exhausted: scan_directory returns Ok(results) (line 515).
WalkEnd ==
    /\ pc = "walk"
    /\ ret' = Return("scan_directory", "Ok", results, None)
    /\ results' = <<>>
    /\ pc' = "idle"
    /\ caller' = "none"
    /\ UNCHANGED <<stats, now, path, walked, total_timer, img, timing, det, ghost>>
    /\ UNCHANGED an

\* scan_file lines 63-66: read the file and decode the image, which takes d ticks.
LoadImage(images, D) ==
    /\ pc = "load"
    /\ \E out \in LoadOutcomes(images), d \in D :
        /\ now + d <= MaxClock
        /\ now' = now + d
        /\ CASE out.status = "read_err" -> ScanFileFails(read_error(path))
             [] out.status = "decode_err" -> ScanFileFails(decode_error(path))
             [] out.status = "ok" ->
                    /\ img' = out.img
                    /\ pc' = "prep"
                    /\ UNCHANGED <<stats, caller, results, ret, total_timer, timing, det, ghost>>
    /\ UNCHANGED <<path, walked>>
    /\ UNCHANGED an

\* detect_qr_codes lines 100-134: resize, generate the variants (d ticks),
\* start the rqrr timers.
Preprocess(D) ==
    /\ pc = "prep"
    /\ \E d \in D :
        LET working_img == working_image(img)
            variants == generate_variants(working_img)
        IN /\ now + d <= MaxClock
           /\ now' = now + d
           /\ timing' = [timing EXCEPT !.qr_detection.to_grayscale = elapsed(now, now')]
           /\ det' = [DetNew EXCEPT !.total_timer = now, !.gray_timer = now,
                                    !.working_img = working_img, !.variants = variants,
                                    !.prepare_timer = now',
                                    !.engine_timer = engine_timer_start(1, now', @),
                                    !.e = 1, !.v = 1]
           /\ ghost' = [ghost EXCEPT !.generated = @ + 1, !.prepared = now']
    /\ pc' = "engine"
    /\ UNCHANGED <<stats, caller, path, walked, results, ret, total_timer, img>>
    /\ UNCHANGED an

\* One turn of an engine's variant loop: the adapter is called on the next
\* variant (d ticks) and its result is matched.
Invoke(D) ==
    /\ pc = "engine"
    /\ det.v <= Len(det.variants)
    /\ \E answer \in library_call(det.e, det.v), d \in D :
        LET res == detect_with(engine_order[det.e], answer)
            log == [ghost EXCEPT !.seen[det.e] = @ \cup (IF res.ok THEN Range(res.val) ELSE {}),
                                 !.invoked = Append(@, <<engine_order[det.e], det.variants[det.v].name>>),
                                 !.repeated = @ \/ (res.ok /\ (HasRepeat(res.val)
                                                              \/ Range(res.val) \cap ghost.seen[det.e] # {})),
                                 !.erred = @ \/ ~res.ok,
                                 !.started[det.e] = IF det.v = 1 THEN now ELSE @,
                                 !.ended[det.e] = now + d]
        IN /\ now + d <= MaxClock
           /\ now' = now + d
           /\ IF propagates(res)
              THEN ScanFileFails(<<res.err>>)
              ELSE /\ det' = [det EXCEPT !.codes = merge_codes(@, res),
                                          !.v = next_variant(@, Len(det.variants), res)]
                   /\ ghost' = log
                   /\ UNCHANGED <<stats, pc, caller, results, ret, total_timer, img, timing>>
    /\ UNCHANGED <<path, walked>>
    /\ UNCHANGED an

\* After the last variant: the engine's timer is read, its set is merged
\* into all_results and its EngineResult is pushed; then the next engine's
\* timers start, or detect_qr_codes returns (lines 149-161, 178-187, ...,
\* 265-283).  After rqrr the prepare timer is read twice (lines 156, 157),
\* after zbar-pack the decode timer and the total timer are read (lines
\* 273, 274): d1 ticks pass before the first of these reads and d2 before
\* the second.
FinishEngine(D) ==
    /\ pc = "engine"
    /\ det.v > Len(det.variants)
    /\ \E qr_codes \in IntoVec(det.codes), d1 \in D, d2 \in D :
        LET duration == elapsed(det.engine_timer, now)
            merged == [det EXCEPT !.all_results = extend(@, det.codes),
                                  !.engine_results = Append(@, EngineResult(engine_order[det.e], qr_codes, duration))]
        IN /\ now + d1 + d2 <= MaxClock
           /\ now' = now + d1 + d2
           /\ timing' =
                IF det.e = 1
                THEN [timing EXCEPT !.qr_detection.prepare_image = elapsed(det.prepare_timer, now + d1),
                                    !.qr_detection.detect_grids = elapsed(det.prepare_timer, now + d1 + d2)]
                ELSE IF det.e = NumEngines
                THEN [timing EXCEPT !.qr_detection.decode_qr = elapsed(det.decode_timer, now + d1),
                                    !.qr_detection.total = elapsed(det.total_timer, now + d1 + d2)]
                ELSE timing
           /\ IF det.e < NumEngines
              THEN /\ det' = [merged EXCEPT !.e = @ + 1, !.v = 1, !.codes = {},
                                            !.engine_timer = engine_timer_start(det.e + 1, now', @),
                                            !.decode_timer = decode_timer_start(det.e + 1, now', @)]
                   /\ pc' = "engine"
              ELSE /\ det' = [merged EXCEPT !.codes = {}]
                   /\ pc' = "return"
    /\ UNCHANGED <<stats, caller, path, walked, results, ret, total_timer, img, ghost>>
    /\ UNCHANGED an

\* scan_file lines 69-90: detect_qr_codes has returned Ok; the statistics are
\* updated and the ScanResult goes to the caller.
ScanFileReturn ==
    /\ pc = "return"
    /\ \E qr_codes \in detect_results(det.all_results, det.engine_results) :
        LET t == [timing EXCEPT !.total = elapsed(total_timer, now)]
            result == success_result(path, qr_codes, det.engine_results, t)
        IN /\ stats' = record_success(stats, t.total, Len(qr_codes))
           /\ ghost' = [ForgetDetection(ghost) EXCEPT !.attempted = @ + 1,
                                     !.recorded_duration = @ + t.total,
                                     !.with_qr = @ + (IF Range(qr_codes) # {} THEN 1 ELSE 0),
                                     !.sum_codes = @ + Cardinality(Range(qr_codes)),
                                     !.last = "succeeded",
                                     !.first = IF ghost.library # <<>> /\ @ = <<>>
                                               THEN <<ResultSets(result)>> ELSE @]
           /\ IF caller = "dir"
              THEN /\ results' = Append(results, result)
                   /\ pc' = "walk"
                   /\ UNCHANGED <<caller, ret>>
              ELSE /\ ret' = Return("scan_file", "Ok", <<result>>, None)
                   /\ pc' = "idle"
                   /\ caller' = "none"
                   /\ UNCHANGED results
    /\ DropLocals
    /\ UNCHANGED <<now, path, walked>>
    /\ UNCHANGED an

\* stats() (lines 519-522).
Stats ==
    /\ pc = "idle"
    /\ stats' = finalize(stats)
    /\ UNCHANGED <<pc, caller, now, path, walked, results, ret, total_timer, img, timing, det, ghost>>
    /\ UNCHANGED an

\* What the three libraries answer to the analyzer.  rqrr reports grids,
\* each of which decodes or fails with a DeQRError; quircs reports codes,
\* each an extraction error, a decode error, text, or bytes that are no
\* UTF-8; rxing answers with one text or one exception.
GridErrors == {"DataEcc", "FormatEcc", "DataUnderflow"}
CodeErrors == {"DataEcc", "FormatEcc"}

RxingErrors ==
    { Exception("NotFoundException", <<>>), Exception("FormatException", <<>>),
      Exception("ChecksumException", <<>>),
      Exception("ReedSolomonException", <<"too", "many", "errors">>),
      Exception("IllegalStateException", <<"bad", "state">>) }

AnalysisTexts(engine, image) == IF engine \in image.readers THEN image.payloads ELSE {}

RqrrGrids(image) ==
    SeqsUpTo({Item("ok", t) : t \in AnalysisTexts("rqrr", image)}
             \cup {Item("err", e) : e \in GridErrors}, MaxItems)

QuircsCodes(image) ==
    SeqsUpTo({Item("ok", t) : t \in AnalysisTexts("quircs", image)}
             \cup {Item("err", e) : e \in CodeErrors}
             \cup {Item("extract_err", e) : e \in ExtractError}
             \cup {Item("non_utf8", "")}, MaxItems)

RxingOutcomes(image) ==
    {Ok(t) : t \in AnalysisTexts("rxing", image)} \cup {Err(e) : e \in RxingErrors}

\* A sheet with one code that the three libraries can read.
AnalyzeImages == { Image(640, 480, 0, 255, {"HELLO"}, {"rqrr", "quircs", "rxing"}) }

\* A caller (main) calls analyze_file.
CallAnalyzeFile ==
    /\ pc = "idle"
    /\ path' = InputPath
    /\ ret' = NoRet
    /\ an' = AnNew
    /\ pc' = "a_load"
    /\ UNCHANGED <<stats, caller, now, walked, results, total_timer, img, timing, det, ghost>>

\* analyze_file lines 62-83: read and decode the file (either can fail and
\* ends the call), resize, generate the variants.
AnalyzeLoad(images) ==
    /\ pc = "a_load"
    /\ \E out \in LoadOutcomes(images) :
        CASE out.status = "read_err" ->
                /\ ret' = Return("analyze_file", "Err", <<>>, Some(read_error(path)))
                /\ pc' = "idle"
                /\ UNCHANGED <<img, an>>
          [] out.status = "decode_err" ->
                /\ ret' = Return("analyze_file", "Err", <<>>, Some(decode_error(path)))
                /\ pc' = "idle"
                /\ UNCHANGED <<img, an>>
          [] out.status = "ok" ->
                LET working_img == working_image(out.img)
                    variants == generate_variants(working_img)
                IN /\ img' = out.img
                   /\ an' = [AnNew EXCEPT !.width = out.img.width, !.height = out.img.height,
                                          !.working_img = working_img, !.variants = variants,
                                          !.variants_tested = Len(variants)]
                   /\ pc' = IF variants = <<>> THEN "a_report" ELSE "a_rqrr"
                   /\ UNCHANGED ret
    /\ UNCHANGED <<stats, caller, now, path, walked, results, total_timer, timing, det, ghost>>

\* As first_variant, had the last variant generated been analysed.
last_variant(variants) == variants[Len(variants)]

\* Line 86: variants.first(), the only variant the engines are run on.
first_variant(variants) == variants[1]

\* Lines 88-92, 95-99, 102-106: an engine's analysis of the first variant
\* is pushed, and its success is or-ed into overall_success.
PushAnalysis(analysis, next) ==
    /\ an' = [an EXCEPT !.engine_analyses = Append(@, analysis),
                        !.overall_success = IF analysis.success THEN TRUE ELSE @]
    /\ pc' = next
    /\ UNCHANGED <<stats, caller, now, path, walked, results, ret, total_timer, img, timing, det, ghost>>

AnalyzeRqrr ==
    /\ pc = "a_rqrr"
    /\ \E grids \in RqrrGrids(img) :
        PushAnalysis(analyze_with_rqrr(grids, first_variant(an.variants).name), "a_quircs")

AnalyzeQuircs ==
    /\ pc = "a_quircs"
    /\ \E codes \in QuircsCodes(img) :
        PushAnalysis(analyze_with_quircs(codes, first_variant(an.variants).name), "a_rxing")

AnalyzeRxing ==
    /\ pc = "a_rxing"
    /\ \E outcome \in RxingOutcomes(img) :
        PushAnalysis(analyze_with_rxing(outcome, first_variant(an.variants).name), "a_report")

\* Lines 110-119: the recommendations are generated and the report returned.
AnalyzeReturn ==
    /\ pc = "a_report"
    /\ ret' = Return("analyze_file", "Ok",
                     <<AnalysisReport(display(path), <<an.width, an.height>>, an.variants_tested,
                                      an.engine_analyses, an.overall_success,
                                      generate_recommendations(an.engine_analyses))>>,
                     None)
    /\ pc' = "idle"
    /\ img' = NoImage
    /\ an' = AnNew
    /\ UNCHANGED <<stats, caller, now, path, walked, results, total_timer, timing, det, ghost>>

\* A scanner used on directories and single files; the clock is seen to
\* advance while a file is read from the slow disk.
Next ==
    \/ CallScanFile
    \/ CallScanDirectory
    \/ WalkNext
    \/ WalkEnd
    \/ LoadImage(BlankImages, 0..MaxTick)
    \/ LoadImage(PhotoImages, {0})
    \/ Preprocess({0})
    \/ Invoke({0})
    \/ FinishEngine({0})
    \/ ScanFileReturn
    \/ Stats

Spec == Init /\ [][Next]_vars

\* A scanner used on single files that several engines read.
NextDetect ==
    \/ CallScanFile
    \/ LoadImage(DetectImages, {0})
    \/ Preprocess({0})
    \/ Invoke({0})
    \/ FinishEngine({0})
    \/ ScanFileReturn
    \/ Stats

SpecDetect == Init /\ [][NextDetect]_vars

\* The analyzer used on single files.
NextAnalyze ==
    \/ CallAnalyzeFile
    \/ AnalyzeLoad(AnalyzeImages)
    \/ AnalyzeRqrr
    \/ AnalyzeQuircs
    \/ AnalyzeRxing
    \/ AnalyzeReturn

SpecAnalyze == Init /\ [][NextAnalyze]_vars

\* The scanner and the analyzer given images of many sizes, up to the point
\* where the variants exist.  The longer side of an oversized image is one
\* for which 2000.0 / side is exact in f32, so that `as u32` cuts the exact
\* quotient.
ResizeSides == {1, 2, 3, 1000, 2000, 2048, 2560, 3200, 4000, 8000}

ResizeImages == {Image(w, h, 0, 255, {}, {}) : w \in ResizeSides, h \in ResizeSides}

NextResize ==
    \/ CallScanFile
    \/ LoadImage(ResizeImages, {0})
    \/ Preprocess({0})
    \/ CallAnalyzeFile
    \/ AnalyzeLoad(ResizeImages)

SpecResize == Init /\ [][NextResize]_vars

\* Deterministic libraries: the answer of engine e's library is a function
\* of the variant.  In FixedLibrary(R, V) the engines of R find a code on the
\* variants of V, and which payload they read depends on engine and variant;
\* everywhere else a library finds nothing (rxing and zbar-pack by failing).
MaxVariants == 5

LoudAnswer(e, v) ==
    LET text == IF (e + v) % 2 = 0 THEN "HELLO" ELSE "WORLD"
    IN IF engine_order[e] = "rqrr" THEN Answer(<<Item("err", ""), Item("ok", text)>>)
       ELSE Answer(<<Item("ok", text)>>)

QuietAnswer(e) ==
    CASE engine_order[e] = "rxing" -> Failure("NotFoundException")
      [] engine_order[e] = "zbar-pack" -> Failure("zbar-pack scan failed")
      [] OTHER -> Answer(<<>>)

FixedLibrary(R, V) ==
    [e \in 1..NumEngines |-> [v \in 1..MaxVariants |->
        IF e \in R /\ v \in V THEN LoudAnswer(e, v) ELSE QuietAnswer(e)]]

TwiceLibraries == {FixedLibrary(R, V) : R \in SUBSET (1..NumEngines), V \in {{1}, {1, 2}, {2, 5}}}

\* A sheet of two codes that every engine can read.
TwiceImages == { Image(640, 480, 0, 255, {"HELLO", "WORLD"}, Range(engine_order)) }

\* A scanner that has already counted three files.
UsedStats ==
    [total_files |-> 3, successful_scans |-> 2, failed_scans |-> 1, files_with_qr |-> 1,
     total_qr_codes |-> 2, total_duration |-> 0, avg_duration_per_file |-> 0]

\* A new or a used scanner, and libraries that are deterministic.
InitTwice ==
    /\ stats \in {ScanStatsNew, UsedStats}
    /\ pc = "idle"
    /\ caller = "none"
    /\ now = 0
    /\ path = InputPath
    /\ walked = <<>>
    /\ results = <<>>
    /\ ret = NoRet
    /\ total_timer = 0
    /\ img = NoImage
    /\ timing = ScanTimingNew
    /\ det = DetNew
    /\ \E library \in TwiceLibraries : ghost = [GhostNew EXCEPT !.library = library]
    /\ an = AnNew

\* The same file scanned again and again by one scanner.
NextTwice ==
    \/ CallScanFile
    \/ LoadImage(TwiceImages, {0})
    \/ Preprocess({0})
    \/ Invoke({0})
    \/ FinishEngine({0})
    \/ ScanFileReturn
    \/ Stats

SpecTwice == InitTwice /\ [][NextTwice]_vars

\* detect_qr_codes lines 128-276 as a function of the libraries' answers,
\* with the order of the engines and the order of the variants as
\* arguments: the code's order is engines 1..5 and variants 1..n.
RECURSIVE engine_codes(_, _, _, _)
engine_codes(e, order, library, codes) ==
    IF order = <<>> THEN codes
    ELSE engine_codes(e, Tail(order), library,
                      merge_codes(codes, detect_with(engine_order[e], library[e][Head(order)])))

RECURSIVE global_codes(_, _, _, _)
global_codes(engines, order, library, all_results) ==
    IF engines = <<>> THEN all_results
    ELSE global_codes(Tail(engines), order, library,
                      extend(all_results, engine_codes(Head(engines), order, library, {})))

Perms(n) == {f \in [1..n -> 1..n] : \A i, j \in 1..n : f[i] = f[j] => i = j}

Identity(n) == [i \in 1..n |-> i]

OrderLibraries ==
    {FixedLibrary(R, V) : R \in {{1, 2}, {2, 5}, {1, 3, 4}, 1..NumEngines}, V \in {{1}, {1, 2}, {2, 4}}}

\* A small code, which has four variants.
OrderImages == { Image(90, 90, 0, 255, {"HELLO", "WORLD"}, Range(engine_order)) }

InitOrder ==
    /\ stats = ScanStatsNew
    /\ pc = "order"
    /\ caller = "none"
    /\ now = 0
    /\ path = InputPath
    /\ walked = <<>>
    /\ results = <<>>
    /\ ret = NoRet
    /\ total_timer = 0
    /\ img \in OrderImages
    /\ timing = ScanTimingNew
    /\ det = DetNew
    /\ \E library \in OrderLibraries, engines \in Perms(NumEngines),
          order \in Perms(Len(generate_variants(working_image(img)))) :
          ghost = [GhostNew EXCEPT !.library = library, !.order = <<engines, order>>]
    /\ an = AnNew

\* The engines are run over the variants in the order drawn.
DetectInOrder ==
    /\ pc = "order"
    /\ det' = [det EXCEPT !.working_img = working_image(img),
                          !.variants = generate_variants(working_image(img)),
                          !.all_results = global_codes(ghost.order[1], ghost.order[2], ghost.library, {})]
    /\ pc' = "ordered"
    /\ UNCHANGED <<stats, caller, now, path, walked, results, ret, total_timer, img, timing, ghost, an>>

NextOrder == DetectInOrder

SpecOrder == InitOrder /\ [][NextOrder]_vars

\* generate_variants applied to an image given directly.
VariantSides == {1, 100, 101, 640, 2000, 3163, 5000, 65536, 2147483647}
VariantRanges == {<<0, 255>>, <<7, 7>>, <<10, 240>>}

InitVariants ==
    /\ stats = ScanStatsNew
    /\ pc = "generate"
    /\ caller = "none"
    /\ now = 0
    /\ path = InputPath
    /\ walked = <<>>
    /\ results = <<>>
    /\ ret = NoRet
    /\ total_timer = 0
    /\ \E w \in VariantSides, h \in VariantSides, r \in VariantRanges :
          img = Image(w, h, r[1], r[2], {}, {})
    /\ timing = ScanTimingNew
    /\ det = DetNew
    /\ ghost = GhostNew
    /\ an = AnNew

GenerateVariants ==
    /\ pc = "generate"
    /\ det' = [det EXCEPT !.working_img = img, !.variants = generate_variants(img)]
    /\ pc' = "generated"
    /\ UNCHANGED <<stats, caller, now, path, walked, results, ret, total_timer, img, timing, ghost>>
    /\ UNCHANGED an

NextVariants == GenerateVariants

SpecVariants == InitVariants /\ [][NextVariants]_vars

\* One scan_file call timed by a clock that advances while the image is
\* decoded, while the variants are generated, during every library call and
\* between successive reads of the clock.  The scanner has been handed every
\* file but the last, and none of them could be read.
TimingImages == { Image(64, 48, 0, 255, {"HELLO"}, Range(engine_order)) }

InitTiming ==
    /\ stats = ScanStatsNew
    /\ pc = "idle"
    /\ caller = "none"
    /\ now = 0
    /\ path = InputPath
    /\ walked = <<>>
    /\ results = <<>>
    /\ ret = Return("scan_file", "Err", <<>>, Some(read_error(InputPath)))
    /\ total_timer = 0
    /\ img = NoImage
    /\ timing = ScanTimingNew
    /\ det = DetNew
    /\ ghost = [GhostNew EXCEPT !.files = MaxFiles - 1, !.attempted = MaxFiles - 1,
                                !.failed = MaxFiles - 1, !.last = "failed",
                                !.library = FixedLibrary({1, 3}, {1})]
    /\ an = AnNew

NextTiming ==
    \/ CallScanFile
    \/ LoadImage(TimingImages, 0..MaxTick)
    \/ Preprocess(0..MaxTick)
    \/ Invoke(0..MaxTick)
    \/ FinishEngine(0..MaxTick)
    \/ ScanFileReturn
    \/ Stats

SpecTiming == InitTiming /\ [][NextTiming]_vars

\* ------------------------------------------------------------------ claims
NoDup(s) == \A i, j \in 1..Len(s) : s[i] = s[j] => i = j

PayloadSet(qr_codes) == Range(qr_codes)

NonEmptyMessage(error) == error # None /\ \E k \in 1..Len(error[1]) : error[1][k] # ""

\* Every ScanResult the scanner has handed out or is collecting.
AllResults == Range(ret.results) \cup Range(results)

EngineSets(r) == {PayloadSet(r.engine_results[k].qr_codes) : k \in 1..Len(r.engine_results)}

\* C1: after a successful scan no payload string occurs twice in
\* ScanResult.qr_codes, and none occurs twice in any EngineResult.qr_codes,
\* whatever the engines returned (the same string from two engines, from two
\* variants, or twice in one call).
C1_NoPayloadTwice ==
    /\ \A r \in AllResults :
          /\ NoDup(r.qr_codes)
          /\ \A k \in 1..Len(r.engine_results) : NoDup(r.engine_results[k].qr_codes)
    /\ \A k \in 1..Len(det.engine_results) : NoDup(det.engine_results[k].qr_codes)

\* C1 witness: detect_qr_codes has finished a scan in which a string came
\* back a second time from one engine and two engines hold the same string.
C1_Witness ==
    /\ pc = "return"
    /\ ghost.repeated
    /\ "HELLO" \in ghost.seen[1] \cap ghost.seen[2]
    /\ det.all_results = {"HELLO", "WORLD"}

\* C2: the global payload set is the union of the five engine sets, each
\* engine set is the union of what its adapter returned with Ok over all
\* variants, and when HELLO is all that was ever decoded the global set is
\* {HELLO}.
C2_GlobalIsUnionOfEngines ==
    /\ \A r \in AllResults :
          r.success => /\ Len(r.engine_results) = NumEngines
                       /\ PayloadSet(r.qr_codes) = UNION EngineSets(r)
    /\ pc = "return" =>
          /\ Len(det.engine_results) = NumEngines
          /\ \A k \in 1..NumEngines : PayloadSet(det.engine_results[k].qr_codes) = ghost.seen[k]
          /\ det.all_results = UNION {ghost.seen[k] : k \in 1..NumEngines}
          /\ (UNION {ghost.seen[k] : k \in 1..NumEngines} = {"HELLO"}) => det.all_results = {"HELLO"}

\* C2 witness: a direct scan returned both payloads, one decoded only by
\* rqrr and the other only by zbar-pack.
C2_Witness ==
    /\ pc = "idle"
    /\ ret.call = "scan_file"
    /\ ret.tag = "Ok"
    /\ PayloadSet(ret.results[1].qr_codes) = {"HELLO", "WORLD"}
    /\ PayloadSet(ret.results[1].engine_results[1].qr_codes) = {"HELLO"}
    /\ PayloadSet(ret.results[1].engine_results[2].qr_codes) = {}
    /\ PayloadSet(ret.results[1].engine_results[5].qr_codes) = {"WORLD"}

LoadMessages == {"Failed to read file: ", "Failed to decode image: "}

\* The (engine, variant) pairs in the order the five loops visit them.
AllPairsInOrder(invoked) ==
    \E nv \in {4, 5} :
        /\ Len(invoked) = NumEngines * nv
        /\ \A k \in 1..Len(invoked) :
              /\ invoked[k][1] = engine_order[((k - 1) \div nv) + 1]
              /\ invoked[k][2] = invoked[((k - 1) % nv) + 1][2]
        /\ \A i, j \in 1..nv : invoked[i][2] = invoked[j][2] => i = j

\* C3: detect_qr_codes never returns an error: whatever the adapters answer
\* (strings, nothing, Err), every engine is invoked on every variant, an
\* engine that only failed or found nothing has an empty result, five
\* engine results are returned, and scan_file fails only on reading or
\* decoding the file.
C3_DetectNeverFails ==
    /\ pc = "return" =>
          /\ Len(det.engine_results) = NumEngines
          /\ AllPairsInOrder(ghost.invoked)
          /\ \A k \in 1..NumEngines : ghost.seen[k] = {} => det.engine_results[k].qr_codes = <<>>
    /\ ret.tag = "Err" => ret.error[1][1] \in LoadMessages
    /\ \A r \in AllResults : ~r.success => r.error[1][1] \in LoadMessages

\* C3 witness: detect_qr_codes has finished although an adapter returned
\* Err, and an engine still decoded a payload.
C3_Witness ==
    /\ pc = "return"
    /\ ghost.erred
    /\ det.all_results # {}
    /\ Len(det.engine_results) = NumEngines

\* C4: successful_scans + failed_scans = total_files in every state.
C4_ScansAddUp == stats.successful_scans + stats.failed_scans = stats.total_files

\* C4 witness: the scanner has counted one success and one failure.
C4_Witness ==
    /\ pc = "idle"
    /\ stats.successful_scans = 1
    /\ stats.failed_scans = 1

\* C5: total_qr_codes >= files_with_qr; files_with_qr counts the files with
\* a non-empty payload set and total_qr_codes is the sum of the sizes of
\* those sets.
C5_CodesAtLeastFiles ==
    /\ stats.total_qr_codes >= stats.files_with_qr
    /\ stats.files_with_qr = ghost.with_qr
    /\ stats.total_qr_codes = ghost.sum_codes

\* C5 witness: two files held codes, one of them two.
C5_Witness ==
    /\ stats.files_with_qr = 2
    /\ stats.total_qr_codes = 3

\* C6 (as claimed): the totals are the sums over every file scan attempted,
\* direct or through scan_directory, failed or not.
C6_TotalsCountEveryAttempt ==
    /\ stats.total_files = ghost.attempted
    /\ stats.failed_scans = ghost.failed
    /\ stats.total_duration = ghost.recorded_duration

FailureRecordOf(p, r) ==
    /\ r.file_path = p
    /\ r.success = FALSE
    /\ NonEmptyMessage(r.error)
    /\ r.qr_codes = <<>>
    /\ r.engine_results = <<>>
    /\ r.timing = ScanTimingNew

\* C7: in scan_directory a failing file is recorded once and never retried:
\* the step appends one failure record (success false, a message, no
\* payloads, no engine results, zero timing), adds one to total_files and
\* to failed_scans and nothing else, the loop goes on, and scan_directory
\* returns Ok with the records.
C7_FailureRecordedOnce ==
    [][ /\ (caller = "dir" /\ ghost'.failed # ghost.failed) =>
            /\ Len(results') = Len(results) + 1
            /\ SubSeq(results', 1, Len(results)) = results
            /\ FailureRecordOf(path, results'[Len(results')])
            /\ stats' = [stats EXCEPT !.total_files = @ + 1, !.failed_scans = @ + 1]
            /\ pc' = "walk"
        /\ \A i, j \in 1..Len(results') : results'[i].file_path = results'[j].file_path => i = j
        /\ (pc = "walk" /\ pc' = "idle") => ret' = Return("scan_directory", "Ok", results, None)
      ]_vars

\* C7 witness: scan_directory returned Ok with a failure record followed by
\* the record of the next file, which was scanned with success after time
\* had passed.
C7_Witness ==
    /\ pc = "idle"
    /\ ret.call = "scan_directory"
    /\ ret.tag = "Ok"
    /\ Len(ret.results) = 2
    /\ ~ret.results[1].success
    /\ ret.results[2].success
    /\ ret.results[2].timing.total > 0
    /\ stats.failed_scans = 1

EqualIgnoringCase(a, b) ==
    /\ Len(a) = Len(b)
    /\ \A k \in 1..Len(a) : lower_char(a[k]) = lower_char(b[k])

IsInputFile(entry) ==
    /\ entry.is_file
    /\ entry.ext # None
    /\ \E k \in 1..Len(image_extensions) : EqualIgnoringCase(entry.ext[1], image_extensions[k])

RECURSIVE InputPaths(_, _)
InputPaths(w, n) ==
    IF n = 0 THEN <<>>
    ELSE IF IsInputFile(w[n]) THEN Append(InputPaths(w, n - 1), n) ELSE InputPaths(w, n - 1)

PathsOf(rs) == [i \in 1..Len(rs) |-> rs[i].file_path]

\* C8: scan_directory yields exactly one ScanResult for every regular file
\* whose extension is, ignoring case, on the allow-list, in traversal
\* order, and none for any other entry.
C8_OneResultPerImageFile ==
    /\ pc = "walk" => PathsOf(results) = InputPaths(walked, Len(walked))
    /\ ret.call = "scan_directory" => PathsOf(ret.results) = InputPaths(walked, Len(walked))

\* C8 witness: a directory of a note and a picture named *.JpeG was
\* scanned: one result, for the picture.
C8_Witness ==
    /\ pc = "idle"
    /\ ret.call = "scan_directory"
    /\ Len(walked) = 2
    /\ walked[1].ext = Some(<<"t", "x", "t">>)
    /\ walked[2].ext = Some(<<"J", "p", "e", "G">>)
    /\ PathsOf(ret.results) = <<2>>

\* C9 (as claimed): a file that cannot be read as an image yields a
\* ScanResult with success = false and a message, and is counted in
\* total_files and failed_scans, as the single input and inside a directory.
C9_FailureAlwaysRecorded ==
    /\ \A r \in AllResults : ~r.success => NonEmptyMessage(r.error)
    /\ (ret.call = "scan_file" /\ ghost.last = "failed") =>
          /\ Len(ret.results) = 1
          /\ ~ret.results[1].success
          /\ NonEmptyMessage(ret.results[1].error)
    /\ stats.total_files = ghost.attempted
    /\ stats.failed_scans = ghost.failed

SameSize(gray, image) == image.width = gray.width /\ image.height = gray.height

\* C10: generate_variants returns a non-empty sequence that starts with
\* original, contrast_enhanced, otsu, inverted, and every variant has the
\* width and height of the grayscale of the input.
C10_VariantsKeepSize ==
    pc \in {"generated", "engine", "return"} =>
        /\ Len(det.variants) >= 4
        /\ [i \in 1..4 |-> det.variants[i].name] = <<"original", "contrast_enhanced", "otsu", "inverted">>
        /\ \A i \in 1..Len(det.variants) : SameSize(to_luma8(det.working_img), det.variants[i].image)

\* C10 witness: the variants of a 640 x 2000 image, adaptive included.
C10_Witness ==
    /\ pc = "generated"
    /\ det.working_img.width = 640
    /\ det.working_img.height = 2000
    /\ Len(det.variants) = 5

VariantNames == [i \in 1..Len(det.variants) |-> det.variants[i].name]

\* width * height < 10,000,000 for sides of at least 1, stated by a division.
AreaBelowCeiling(width, height) == width <= (10000000 - 1) \div height

\* C11: generate_variants returns the four fixed variants followed by
\* adaptive exactly when width > 100, height > 100 and
\* width * height < 10,000,000, and exactly the four fixed variants otherwise;
\* the pixel count is the true product for every pair of sides, also where
\* a 32-bit product wraps.
C11_AdaptiveOnlyBelowCeiling ==
    pc = "generated" =>
        LET width == det.working_img.width
            height == det.working_img.height
        IN IF width > 100 /\ height > 100 /\ AreaBelowCeiling(width, height)
           THEN VariantNames = <<"original", "contrast_enhanced", "otsu", "inverted", "adaptive">>
           ELSE VariantNames = <<"original", "contrast_enhanced", "otsu", "inverted">>

\* C11 witness: the variants of a 65536 x 65536 image, whose pixel count is
\* 0 in 32 bits: adaptive is left out.
C11_Witness ==
    /\ pc = "generated"
    /\ det.working_img.width = 65536
    /\ det.working_img.height = 65536
    /\ Len(det.variants) = 4

WithinCap(source, working) ==
    IF Max(source.width, source.height) > 2000
    THEN working.width <= 2000 /\ working.height <= 2000
    ELSE working.width = source.width /\ working.height = source.height

\* C12 (as claimed): the working image that scan_file and analyze_file hand
\* to generate_variants has both sides at most 2000 when the source's longer
\* side exceeds 2000, and the source's sides otherwise.
C12_WorkingImageWithinCap ==
    /\ pc = "engine" => WithinCap(img, det.working_img)
    /\ pc = "a_rqrr" => WithinCap(img, an.working_img)

\* C13: under deterministic libraries, every later scan of the same image
\* returns the global payload set and the per-engine payload sets of the
\* first scan, whatever the statistics held before either scan; the global
\* set is the one the libraries' answers determine.
C13_RescanSameSets ==
    /\ (ret.call = "scan_file" /\ ret.tag = "Ok" /\ ghost.first # <<>>) =>
          ResultSets(ret.results[1]) = ghost.first[1]
    /\ pc = "return" =>
          det.all_results = global_codes(Identity(NumEngines), Identity(Len(det.variants)), ghost.library, {})

\* C13 witness: a used scanner has scanned the sheet twice with success, and
\* the second scan returned both payloads, rqrr having read one of them.
C13_Witness ==
    /\ pc = "idle"
    /\ ghost.files = 2
    /\ ghost.attempted = 2
    /\ stats.total_files = 5
    /\ ret.tag = "Ok"
    /\ ResultSets(ret.results[1]).global = {"HELLO", "WORLD"}
    /\ ResultSets(ret.results[1]).engines[1] = {"HELLO"}

\* Everything some library decodes on some variant.
AllDecoded(library, n) ==
    UNION {Range(DecodedTexts(library[e][v].items)) : e \in 1..NumEngines, v \in 1..n}

\* C14: whatever the order in which the five engines are run and the order
\* in which the variants are tried, the global payload set is the one the
\* code's order yields, the union of everything decoded.
C14_OrderIndependent ==
    pc = "ordered" =>
        /\ det.all_results =
              global_codes(Identity(NumEngines), Identity(Len(det.variants)), ghost.library, {})
        /\ det.all_results = AllDecoded(ghost.library, Len(det.variants))

\* C14 witness: engines and variants were run in reverse order and both
\* payloads were found.
C14_Witness ==
    /\ pc = "ordered"
    /\ ghost.order[1] = <<5, 4, 3, 2, 1>>
    /\ ghost.order[2] = <<4, 3, 2, 1>>
    /\ det.all_results = {"HELLO", "WORLD"}

\* C15: when no engine decodes anything on any variant, scan_file returns
\* Ok with a ScanResult of no payloads, success = true and error = None,
\* total_files and successful_scans grow by one, and files_with_qr and
\* total_qr_codes stay.
C15_EmptyScanSucceeds ==
    [][ (pc = "return" /\ \A k \in 1..NumEngines : ghost.seen[k] = {}) =>
            LET r == IF caller = "dir" THEN results'[Len(results')] ELSE ret'.results[1]
            IN /\ caller # "dir" => (ret'.call = "scan_file" /\ ret'.tag = "Ok" /\ Len(ret'.results) = 1)
               /\ caller = "dir" => Len(results') = Len(results) + 1
               /\ r.qr_codes = <<>>
               /\ r.success = TRUE
               /\ r.error = None
               /\ stats'.total_files = stats.total_files + 1
               /\ stats'.successful_scans = stats.successful_scans + 1
               /\ stats'.failed_scans = stats.failed_scans
               /\ stats'.files_with_qr = stats.files_with_qr
               /\ stats'.total_qr_codes = stats.total_qr_codes
      ]_vars

\* C15 witness: after a file with codes, a blank page was scanned directly:
\* Ok, no payloads, two files counted, one of them with codes.
C15_Witness ==
    /\ pc = "idle"
    /\ ret.call = "scan_file"
    /\ ret.tag = "Ok"
    /\ ret.results[1].qr_codes = <<>>
    /\ ret.results[1].success
    /\ stats.total_files = 2
    /\ stats.successful_scans = 2
    /\ stats.files_with_qr = 1

\* The report analyze_file has returned.
HasReport == ret.call = "analyze_file" /\ ret.tag = "Ok"
Report == ret.results[1]
Analysis(k) == Report.engine_analyses[k]
TotalGrids == Analysis(1).grids_detected + Analysis(2).grids_detected + Analysis(3).grids_detected
AnyDecoded == \E k \in 1..3 : \E j \in 1..Len(Analysis(k).decode_results) : Analysis(k).decode_results[j].decode_success
Advised(text) == text \in Range(Report.recommendations)

\* The tags recorded in the report.
ErrorTags ==
    {Analysis(k).decode_results[j].error_type[1] :
        <<k, j>> \in {<<k, j>> \in (1..3) \X (1..MaxItems + 1) :
                         /\ j <= Len(Analysis(k).decode_results)
                         /\ Analysis(k).decode_results[j].error_type # None}}

\* C16: once the image is loaded analyze_file returns Ok; when the three
\* analyses detected no grid in total, overall_success is false and the
\* recommendations are exactly the no-pattern-found text; when they detected
\* a grid, that text is not among the recommendations.
C16_NoPatternFoundIffNoGrid ==
    /\ (ret.call = "analyze_file" /\ ret.tag = "Err") => ret.error[1][1] \in LoadMessages
    /\ HasReport =>
          /\ Len(Report.engine_analyses) = 3
          /\ TotalGrids = 0 => (Report.overall_success = FALSE /\ Report.recommendations = <<NoPatternFound>>)
          /\ TotalGrids > 0 => ~Advised(NoPatternFound)

\* C16 witness: no engine detected a grid, rxing failing with a checksum
\* exception.
C16_Witness ==
    /\ HasReport
    /\ TotalGrids = 0
    /\ Words("ChecksumException") \in ErrorTags
    /\ Report.recommendations = <<NoPatternFound>>

\* C17 (as claimed): a data-correction failure in any engine's analysis
\* (DataEcc of rqrr or quircs, a Reed-Solomon or checksum exception of
\* rxing) puts the cleaner-image recommendation in the list.
C17_DataCorrectionAdvised ==
    (HasReport /\ ErrorTags \cap {Words("DataEcc"), Words("ReedSolomonException"), Words("ChecksumException")} # {})
        => Advised(CleanerImage)

\* C18: when a grid was detected, nothing was decoded and neither the
\* cleaner-image nor the format-metadata recommendation fired, the
\* recommendations are exactly the re-capture text.
C18_RecaptureWhenNothingElse ==
    (HasReport /\ TotalGrids > 0 /\ ~AnyDecoded /\ ~Advised(CleanerImage) /\ ~Advised(FormatMetadata))
        => Report.recommendations = <<Recapture>>

\* C18 witness: rqrr and quircs each detected a grid that failed to decode,
\* rxing located a pattern that does not conform, no DataEcc and no
\* FormatEcc: the re-capture text alone.
C18_Witness ==
    /\ HasReport
    /\ Analysis(1).grids_detected >= 1
    /\ Analysis(2).grids_detected >= 1
    /\ Words("FormatException") \in ErrorTags
    /\ ~AnyDecoded
    /\ Report.recommendations = <<Recapture>>

\* C19: a report with overall_success = false has at least one
\* recommendation, and overall_success is false exactly when nothing was
\* decoded.
C19_FailureAlwaysAdvised ==
    HasReport =>
        /\ Report.overall_success = AnyDecoded
        /\ ~Report.overall_success => Report.recommendations # <<>>

\* C19 witness: nothing decoded, DataEcc from one engine and FormatEcc from
\* another: two recommendations.
C19_Witness ==
    /\ HasReport
    /\ ~Report.overall_success
    /\ Words("DataEcc") \in ErrorTags
    /\ Report.recommendations = <<CleanerImage, FormatMetadata>>

\* C20: in one scan generate_variants is called once; the adapters are
\* invoked engine by engine in the order rqrr, rxing, quircs, bardecoder,
\* zbar-pack, each engine on every variant in generation order, also after
\* a variant has decoded; engine_results lists the engines in that order.
C20_EnginesInFixedOrder ==
    /\ pc \in {"engine", "return"} =>
          LET n == Len(det.variants)
              done == Len(det.engine_results)
          IN /\ ghost.generated = 1
             /\ Len(ghost.invoked) = (IF pc = "engine" THEN done * n + det.v - 1 ELSE NumEngines * n)
             /\ \A k \in 1..Len(ghost.invoked) :
                   ghost.invoked[k] = <<engine_order[((k - 1) \div n) + 1], det.variants[((k - 1) % n) + 1].name>>
             /\ \A k \in 1..done : det.engine_results[k].engine_name = engine_order[k]
             /\ pc = "return" => done = NumEngines
    /\ \A r \in AllResults :
          r.success => [k \in 1..Len(r.engine_results) |-> r.engine_results[k].engine_name] = engine_order

\* C20 witness: a scan in which rqrr decoded a payload has run all five
\* engines on all five variants.
C20_Witness ==
    /\ pc = "return"
    /\ ghost.seen[1] # {}
    /\ Len(det.variants) = 5
    /\ Len(ghost.invoked) = 25
    /\ ghost.invoked[2] = <<"rqrr", "contrast_enhanced">>

\* The durations of the engines that have finished, in milliseconds.
DurationsMs == [k \in 1..Len(det.engine_results) |-> det.engine_results[k].duration_ms]

RECURSIVE SumFrom(_, _)
SumFrom(s, k) == IF k > Len(s) THEN 0 ELSE s[k] + SumFrom(s, k + 1)

\* C21: with a monotonic clock every engine's reported duration is the time
\* from just before its first variant invocation to just after its last one:
\* it starts no earlier than the instant the variants were ready, it ends
\* before the next engine's first invocation, and the five durations plus
\* to_grayscale never exceed the detection total.
C21_EngineDurationIsItsOwnSpan ==
    pc \in {"engine", "return"} =>
        /\ \A k \in 1..Len(det.engine_results) :
              /\ DurationsMs[k] = to_ms(ghost.ended[k] - ghost.started[k])
              /\ ghost.prepared <= ghost.started[k]
              /\ k > 1 => ghost.ended[k - 1] <= ghost.started[k]
        /\ pc = "return" =>
              SumFrom(DurationsMs, 1) + to_ms(timing.qr_detection.to_grayscale)
                  <= to_ms(timing.qr_detection.total)

\* detect_qr_codes has returned; preprocessing, rqrr and quircs each took a
\* tick, so the detection total is larger than any single duration.
C21_Witness ==
    /\ pc = "return"
    /\ timing.qr_detection.to_grayscale = 1
    /\ DurationsMs = <<1, 0, 1, 0, 0>>
    /\ timing.qr_detection.total = 3

\* C29: the recorded times are nested: rqrr's duration <= prepare_image <=
\* detect_grids; the durations of rxing, quircs, bardecoder and zbar-pack
\* together <= decode_qr; to_grayscale + detect_grids + decode_qr <= the
\* detection total; and the detection total <= the file's total.
TimingNested(qd, durations, total) ==
    /\ durations[1] <= to_ms(qd.prepare_image)
    /\ qd.prepare_image <= qd.detect_grids
    /\ SumFrom(durations, 2) <= to_ms(qd.decode_qr)
    /\ qd.to_grayscale + qd.detect_grids + qd.decode_qr <= qd.total
    /\ qd.total <= total

C29_TimingsNested ==
    /\ pc = "return" => TimingNested(timing.qr_detection, DurationsMs, timing.qr_detection.total)
    /\ (ret.call = "scan_file" /\ ret.tag = "Ok") =>
          LET r == ret.results[1]
          IN TimingNested(r.timing.qr_detection,
                          [k \in 1..Len(r.engine_results) |-> r.engine_results[k].duration_ms],
                          r.timing.total)

\* A returned result in which every inequality is strict somewhere: a tick
\* passed while the file was loaded, between the two reads of the prepare
\* timer, and during a zbar-pack call.
C29_Witness ==
    /\ ret.call = "scan_file" /\ ret.tag = "Ok"
    /\ LET r == ret.results[1]
       IN /\ r.engine_results[1].duration_ms = 0
          /\ r.timing.qr_detection.prepare_image = 0
          /\ r.timing.qr_detection.detect_grids = 1
          /\ r.engine_results[5].duration_ms = 1
          /\ r.timing.qr_detection.decode_qr = 1
          /\ r.timing.qr_detection.total = 2
          /\ r.timing.total = 3

\* The entries of an analysis, as a set of positions.
Entries(a) == 1..Len(a.decode_results)

\* C22: every EngineAnalysis, rxing's included, holds exactly one
\* GridAnalysis per detected region: as many entries as grids_detected,
\* indexed 0, 1, ... in order, and none when no region was located.
C22_OneGridAnalysisPerRegion ==
    HasReport =>
        \A k \in 1..3 :
            /\ Len(Analysis(k).decode_results) = Analysis(k).grids_detected
            /\ \A j \in Entries(Analysis(k)) : Analysis(k).decode_results[j].grid_index = j - 1

\* The category tags the classifiers can name without looking at an
\* error's message.
CategoryTags == {Words(name) : name \in DeQRError \cup ExtractError \cup Exceptions}

\* C23: every decode failure recorded is non-fatal and classified: the
\* report is returned, and the entry has decode_success = false, a tag from
\* a fixed finite set that does not depend on the error's message, and a
\* non-empty detail.
C23_FailuresClassified ==
    HasReport =>
        \A k \in 1..3 : \A j \in Entries(Analysis(k)) :
            LET g == Analysis(k).decode_results[j]
            IN (g.error_type # None \/ ~g.decode_success) =>
                  /\ g.decode_success = FALSE
                  /\ g.error_type # None
                  /\ g.error_type[1] \in CategoryTags
                  /\ g.error_detail # <<>>

\* C25: the engines are run on the first variant only: the report holds
\* exactly three analyses, of rqrr, quircs and rxing in this order, each
\* labelled "original", however many variants were generated; and
\* overall_success is true exactly when one of the three succeeded.
C25_FirstVariantOnly ==
    HasReport =>
        /\ Len(Report.engine_analyses) = 3
        /\ Analysis(1).engine_name = <<"rqrr (", "original", ")">>
        /\ Analysis(2).engine_name = <<"quircs (", "original", ")">>
        /\ Analysis(3).engine_name = <<"rxing (", "original", ")">>
        /\ Report.overall_success <=> (\E k \in 1..3 : Analysis(k).success)

\* Five variants were generated, and rxing alone decoded the first.
C25_Witness ==
    /\ HasReport
    /\ Report.variants_tested = 5
    /\ ~Analysis(1).success /\ ~Analysis(2).success /\ Analysis(3).success
    /\ Report.overall_success

\* C28: in every GridAnalysis decode_success is true exactly when
\* error_type is absent and exactly when content is present; an
\* EngineAnalysis has success = true exactly when one of its entries has
\* decode_success, and grids_detected is at least the number of those.
C28_SuccessFlagsConsistent ==
    HasReport =>
        \A k \in 1..3 :
            LET a == Analysis(k)
                decoded == {j \in Entries(a) : a.decode_results[j].decode_success}
            IN /\ \A j \in Entries(a) :
                     /\ a.decode_results[j].decode_success <=> a.decode_results[j].error_type = None
                     /\ a.decode_results[j].decode_success <=> a.decode_results[j].content # None
               /\ a.success <=> decoded # {}
               /\ a.grids_detected >= Cardinality(decoded)

\* rqrr decoded one of two grids, quircs decoded bytes that are not UTF-8,
\* rxing failed.
C28_Witness ==
    /\ HasReport
    /\ Analysis(1).grids_detected = 2
    /\ Analysis(1).decode_results[1].decode_success /\ ~Analysis(1).decode_results[2].decode_success
    /\ Analysis(2).grids_detected = 1
    /\ Analysis(2).decode_results[1].content = Some("<binary data>")
    /\ ~Analysis(3).success

\* s rearranged by the permutation f.
Permuted(s, f) == [i \in 1..Len(s) |-> s[f[i]]]

\* The exchanges that generate every order of n items: none, the first two
\* exchanged, all moved up by one.
Exchanges(n) ==
    {Identity(n),
     [i \in 1..n |-> IF i = 1 /\ n > 1 THEN 2 ELSE IF i = 2 THEN 1 ELSE i],
     [i \in 1..n |-> (i % n) + 1]}

\* An analysis with its grid results exchanged.
GridOrders(a) == {[a EXCEPT !.decode_results = Permuted(@, g)] : g \in Exchanges(Len(a.decode_results))}

\* The report's analyses in every order, with their grid results
\* exchanged.
Rearranged ==
    {Permuted(<<x, y, z>>, f) :
        x \in GridOrders(Analysis(1)), y \in GridOrders(Analysis(2)),
        z \in GridOrders(Analysis(3)), f \in Perms(3)}

\* C26: the recommendations depend on the aggregate classification only:
\* the analyses in another order, or their grid results in another order,
\* give the same list; and when a DataEcc and a FormatEcc failure are both
\* recorded and a region was detected, both recommendations are listed.
C26_RecommendationsOrderFree ==
    HasReport =>
        /\ \A r \in Rearranged : generate_recommendations(r) = Report.recommendations
        /\ (Words("DataEcc") \in ErrorTags /\ Words("FormatEcc") \in ErrorTags /\ TotalGrids > 0) =>
              (Advised(CleanerImage) /\ Advised(FormatMetadata))

\* quircs recorded the DataEcc failure and, after it, the FormatEcc
\* failure; rqrr found nothing.
C26_Witness ==
    /\ HasReport
    /\ Analysis(1).grids_detected = 0
    /\ Analysis(2).grids_detected = 2
    /\ Analysis(2).decode_results[1].error_type = Some(Words("DataEcc"))
    /\ Analysis(2).decode_results[2].error_type = Some(Words("FormatEcc"))
    /\ Report.recommendations = <<CleanerImage, FormatMetadata>>

\* C24: avg_duration_per_file is computed on demand only: no step of
\* scan_file or scan_directory changes it; stats() sets it to
\* total_duration / total_files, failed files in the divisor, when
\* total_files > 0 and changes nothing else; with total_files = 0 it is zero.
C24_AverageOnDemand ==
    /\ [](stats.total_files = 0 => stats.avg_duration_per_file = 0)
    /\ [][/\ stats'.avg_duration_per_file # stats.avg_duration_per_file =>
                (pc = "idle" /\ pc' = "idle")
          /\ (pc = "idle" /\ pc' = "idle") =>
                stats' = [stats EXCEPT !.avg_duration_per_file =
                              IF stats.total_files > 0
                              THEN stats.total_duration \div stats.total_files
                              ELSE @]]_vars

\* The average was computed after a file that took one tick; the failed
\* file counted since has left it as it was.
C24_Witness ==
    /\ stats.avg_duration_per_file = 1
    /\ stats.total_duration = 1
    /\ stats.total_files = 2
    /\ stats.failed_scans = 1

====
